---- MODULE Spec2Model ----
(***************************************************************************)
(* A model of tockloader's OpenOCD board interface                         *)
(* (src/tockloader/openocd.py): the process runner _run_openocd_commands,  *)
(* the flash operations flash_binary / read_range / erase_page and the     *)
(* board resolver determine_current_board.                                 *)
(*                                                                         *)
(* Text is a sequence of atoms (an atom is a run of characters that no     *)
(* operation of the program splits).  A command is a sequence of items,    *)
(* one per whitespace-separated part of the command string; an item is a   *)
(* sequence of atoms.  A byte buffer is a sequence of small integers.  A   *)
(* Python value that may be None is a sequence of at most one element:     *)
(* <<>> is None and <<v>> is the value v.                                  *)
(***************************************************************************)
EXTENDS Integers, Sequences, FiniteSets, TLC

VARIABLES
    platform,            \* platform.system()
    debug,               \* self.args.debug
    tool,                \* the external tool installed: "any" or "simulated"
    board,               \* self.board            ("None" when unset)
    arch,                \* self.arch             ("None" when unset)
    openocd_board,       \* self.openocd_board    ("None" when unset)
    openocd_options,     \* self.openocd_options  (a set of flag names)
    openocd_prefix,      \* self.openocd_prefix   ("None" when unset)
    openocd_commands,    \* self.openocd_commands (operation kind -> template)
    page_size,           \* self.page_size        (0 when unset)
    collect_temp_files,  \* the module-level list collect_temp_files
    files,               \* the paths of the staging files that exist on disk
    nfiles,              \* how many names tempfile has handed out
    flash,               \* the memory of the simulated external tool
    run,                 \* the invocation of the external tool in flight
    last,                \* the flash operation that ended last, if none runs
    prev,                \* the one that ended before (simulated tool only)
    nops,                \* how many flash operations have run
    attrs,               \* what get_all_attributes() yields
    res,                 \* the determine_current_board call that ended last
    res_prev             \* the call before it

vars == <<platform, debug, tool, board, arch, openocd_board, openocd_options,
          openocd_prefix, openocd_commands, page_size, collect_temp_files,
          files, nfiles, flash, run, last, prev, nops, attrs, res,
          res_prev>>

profile == <<board, arch, openocd_board, openocd_options, openocd_prefix,
             openocd_commands, page_size>>

flashvars == <<collect_temp_files, files, nfiles, flash, run, last, prev, nops>>

boardvars == <<attrs, res, res_prev>>

-----------------------------------------------------------------------------
(* Bounds of the model.                                                    *)

MaxLen == 2      \* longest byte buffer / longest dump the tool writes
MaxOut == 2      \* most atoms the tool prints on stdout and stderr together
MaxOps == 2      \* flash operations in one run
MaxAddr == 17    \* highest address used
MaxAttrs == 2    \* most attribute records the device yields

(* Program constants.                                                      *)

EraseByte == 255   \* 0xff in the default erase command
EraseLen == 512    \* the 512 of the default erase command

None == "None"

Byte == {1, 2}

Min(a, b) == IF a < b THEN a ELSE b

SeqsUpTo(S, n) == UNION {[1..k -> S] : k \in 0..n}

Buffers == SeqsUpTo(Byte, MaxLen)

Addrs == {0, MaxAddr}

-----------------------------------------------------------------------------
(* Text helpers.                                                           *)

\* Python's `pat in s` on strings.
Contains(s, pat) ==
    \E i \in 1..(Len(s) - Len(pat) + 1) : SubSeq(s, i, i + Len(pat) - 1) = pat

HexChars == <<"0", "1", "2", "3", "4", "5", "6", "7",
              "8", "9", "a", "b", "c", "d", "e", "f">>

RECURSIVE Digits(_, _)
Digits(n, base) ==
    IF n < base THEN <<HexChars[n + 1]>>
    ELSE Append(Digits(n \div base, base), HexChars[(n % base) + 1])

\* '{:#x}'.format(n)
Hex(n) == <<"0x">> \o Digits(n, 16)

\* '{}'.format(n)
Dec(n) == Digits(n, 10)

DigitValue(c) == (CHOOSE i \in 1..16 : HexChars[i] = c) - 1

RECURSIVE Number(_, _)
Number(ds, base) ==
    IF ds = <<>> THEN 0
    ELSE Number(SubSeq(ds, 1, Len(ds) - 1), base) * base + DigitValue(ds[Len(ds)])

\* How the external tool reads a number: 0x... is hexadecimal.
ParseNumber(w) ==
    IF w # <<>> /\ w[1] = "0x" THEN Number(Tail(w), 16) ELSE Number(w, 10)

-----------------------------------------------------------------------------
(* Binary staging: the temporary file of _run_openocd_commands.            *)

BS == "\\"

Truthy(opt) == opt # <<>> /\ opt[1] # <<>>

\* The path tempfile.NamedTemporaryFile(suffix='.bin') gives its n-th file.
TempPath(n) ==
    IF platform = "Windows"
    THEN <<"C:", BS, "Temp", BS, "tmp">> \o Dec(n) \o <<".bin">>
    ELSE <<"/", "tmp", "/", "tmp">> \o Dec(n) \o <<".bin">>

\* name.replace('\\', '\\\\\\'): every backslash becomes three.
RECURSIVE EscapeName(_)
EscapeName(name) ==
    IF name = <<>> THEN <<>>
    ELSE (IF Head(name) = BS THEN <<BS, BS, BS>> ELSE <<Head(name)>>)
         \o EscapeName(Tail(name))

\* The `delete` flag handed to NamedTemporaryFile.
DeleteOnClose_IgnoreDebug == platform # "Windows"

DeleteOnClose == IF debug THEN FALSE ELSE platform # "Windows"

\* The path is appended to collect_temp_files on Windows only.
Collects == platform = "Windows"

-----------------------------------------------------------------------------
(* Command templates.                                                      *)

Placeholder == "{binary}"

DefaultProgram == << <<"program">>, <<"{{binary}}">>, <<"verify">>,
                     <<"{address:#x}", ";">> >>

DefaultRead == << <<"dump_image">>, <<"{{binary}}">>, <<"{address:#x}">>,
                  <<"{length}", ";">> >>

DefaultErase == << <<"flash">>, <<"fillb">>, <<"{address:#x}">>,
                   Hex(EraseByte), Dec(EraseLen) \o <<";">> >>

\* str.format(address=..., length=...) on one item: {{ }} becomes { }.
RECURSIVE FormatItemArgs(_, _, _)
FormatItemArgs(item, address, length) ==
    IF item = <<>> THEN <<>>
    ELSE (CASE Head(item) = "{{binary}}" -> <<Placeholder>>
            [] Head(item) = "{address:#x}" -> Hex(address)
            [] Head(item) = "{length}" -> Dec(length)
            [] OTHER -> <<Head(item)>>)
         \o FormatItemArgs(Tail(item), address, length)

FormatArgs(command, address, length) ==
    [i \in DOMAIN command |-> FormatItemArgs(command[i], address, length)]

\* str.format(binary=name) on one item.
RECURSIVE FormatItemBinary(_, _)
FormatItemBinary(item, name) ==
    IF item = <<>> THEN <<>>
    ELSE (IF Head(item) = Placeholder THEN name ELSE <<Head(item)>>)
         \o FormatItemBinary(Tail(item), name)

FormatBinary(command, name) ==
    [i \in DOMAIN command |-> FormatItemBinary(command[i], name)]

HasPlaceholder(command) ==
    \E i \in DOMAIN command : \E j \in DOMAIN command[i] :
        command[i][j] = Placeholder

\* The wrapping clauses of the invocation.
Prefix ==
    IF openocd_prefix # None /\ openocd_prefix # "" THEN << <<openocd_prefix>> >>
    ELSE IF "workareazero" \in openocd_options
         THEN << <<"set WORKAREASIZE 0;">> >>
         ELSE <<>>

Source ==
    IF openocd_board = None THEN <<>>
    ELSE << <<"source [find board/", openocd_board, "];">> >>

CmdPrefix ==
    IF "nocmdprefix" \in openocd_options THEN <<>>
    ELSE IF "noreset" \in openocd_options THEN << <<"init; halt;">> >>
         ELSE << <<"init; reset init; halt;">> >>

CmdSuffix ==
    IF "resume" \in openocd_options THEN << <<"soft_reset_halt; resume;">> >>
    ELSE <<>>

\* openocd -c "<prefix> <source> <cmd_prefix> <cmd> <cmd_suffix> exit": items
\* 1 and 2 are the program and its flag, the rest is the quoted script.
OpenocdCommand(commands) ==
    << <<"openocd">>, <<"-c">> >> \o Prefix \o Source \o CmdPrefix
        \o commands \o CmdSuffix \o << <<"exit">> >>

-----------------------------------------------------------------------------
(* The process runner: _run_openocd_commands.                              *)

CantFindBoard == <<"Can't find", "board/">>

NoJLink == <<"Error: No J-Link device found.">>

RECURSIVE Flatten(_)
Flatten(command) ==
    IF command = <<>> THEN <<>> ELSE Head(command) \o Flatten(Tail(command))

\* What print_output prints and returns.
PrintOutput(out, err) ==
    (IF out # <<>> THEN out ELSE <<>>) \o (IF err # <<>> THEN err ELSE <<>>)

\* Lines 38-53: the staging file, the retention list and the substituted
\* command.  `staged` is empty or holds the one file of this run, with its
\* content at the moment the tool is started.
Staging(commands, binary, write) ==
    LET makes == Truthy(binary) \/ ~write
        path == TempPath(nfiles + 1)
        name == IF platform = "Windows" THEN EscapeName(path) ELSE path
        file == [path |-> path, name |-> name,
                 content |-> IF write THEN binary[1] ELSE <<>>,
                 delete |-> DeleteOnClose]
    IN  [staged |-> IF makes THEN {file} ELSE {},
         collect |-> IF makes /\ Collects
                     THEN collect_temp_files \o <<name>>
                     ELSE collect_temp_files,
         cmd |-> OpenocdCommand(IF makes THEN FormatBinary(commands, name)
                                ELSE commands)]

\* Lines 94-107: which error, if any, the run raises.
Outcome_JLinkAnywhere(rc, out, err) ==
    IF rc # 0
    THEN IF Contains(PrintOutput(out, err), CantFindBoard)
         THEN "BoardConfigNotFound" ELSE "ExternalToolFailure"
    ELSE IF Contains(PrintOutput(out, err), NoJLink)
         THEN "HardwareNotConnected" ELSE "ok"

Outcome(rc, out, err) ==
    IF rc # 0
    THEN IF Contains(PrintOutput(out, err), CantFindBoard)
         THEN "BoardConfigNotFound" ELSE "ExternalToolFailure"
    ELSE IF Contains(out, NoJLink)
         THEN "HardwareNotConnected" ELSE "ok"

\* Lines 81-82: what is printed before the tool is started.
RunningLog(cmd) ==
    IF debug THEN <<[kind |-> "running", text |-> Flatten(cmd)]>> ELSE <<>>

\* Lines 94-102: what is printed once the tool has exited, in order.
ExitLog(rc, out, err) ==
    IF rc # 0
    THEN <<[kind |-> "error code",
            text |-> <<"ERROR: openocd returned with error code ">> \o Dec(rc)],
           [kind |-> "output", text |-> PrintOutput(out, err)]>>
    ELSE IF debug
         THEN <<[kind |-> "output", text |-> PrintOutput(out, err)]>>
         ELSE <<>>

\* Lines 109-112: temp_bin.seek(0, 0); temp_bin.read() on a read run, None
\* otherwise.  `wrote` is what the tool left in the staging file.
ReadBack(write, wrote) == IF write THEN <<>> ELSE <<wrote>>

\* Lines 141-150 of read_range: the bytes returned.
TruncateRead_Keep(result, length) ==
    IF Truthy(result) THEN result[1] ELSE <<>>

TruncateRead(result, length) ==
    LET read == IF Truthy(result) THEN result[1] ELSE <<>>
    IN  IF Len(read) > length THEN SubSeq(read, 1, length) ELSE read

NoRun == [op |-> "none", address |-> 0, binary |-> <<>>, length |-> 0,
          cmd |-> <<>>, staged |-> {}, log |-> <<>>]

NoOp == [op |-> "none", address |-> 0, binary |-> <<>>, length |-> 0,
         cmd |-> <<>>, staged |-> {}, rc |-> 0, out |-> <<>>, err |-> <<>>,
         wrote |-> <<>>, outcome |-> "ok", result |-> <<>>, log |-> <<>>]

\* A flash operation up to subprocess.run: the command is built, the buffer
\* staged, and the external tool started on the command.
Invoke(op, address, binary, length, commands, pre) ==
    LET st == Staging(commands, binary, op # "read")
    IN  /\ run.op = "none"
        /\ nops < MaxOps
        /\ run' = [op |-> op, address |-> address, binary |-> binary,
                   length |-> length, cmd |-> st.cmd, staged |-> st.staged,
                   log |-> pre \o RunningLog(st.cmd)]
        /\ collect_temp_files' = st.collect
        /\ files' = files \cup {f.path : f \in st.staged}
        /\ nfiles' = nfiles + Cardinality(st.staged)
        /\ nops' = nops + 1
        /\ last' = NoOp
        /\ prev' = IF tool = "simulated" THEN last ELSE prev
        /\ UNCHANGED <<platform, debug, tool, profile, boardvars, flash>>

\* The rest of the operation, once subprocess.run has returned `resp`: the
\* run is classified, the staging file read back and released, and the
\* operation returns or raises.
Return(resp) ==
    LET outcome == Outcome(resp.rc, resp.out, resp.err)
        back == ReadBack(run.op # "read", resp.wrote)
    IN  /\ run.op # "none"
        /\ last' = [op |-> run.op, address |-> run.address,
                    binary |-> run.binary, length |-> run.length,
                    cmd |-> run.cmd, staged |-> run.staged,
                    rc |-> resp.rc, out |-> resp.out, err |-> resp.err,
                    wrote |-> resp.wrote, outcome |-> outcome,
                    result |-> IF outcome = "ok" /\ run.op = "read"
                               THEN <<TruncateRead(back, run.length)>>
                               ELSE <<>>,
                    log |-> run.log \o ExitLog(resp.rc, resp.out, resp.err)]
        /\ files' = files \ {f.path : f \in {g \in run.staged : g.delete}}
        /\ run' = NoRun
        /\ UNCHANGED <<platform, debug, tool, profile, boardvars,
                       collect_temp_files, nfiles, nops, prev>>

\* The commands of the three operations (lines 119-126, 131-138, 162-169).
ProgramCommand(address) ==
    FormatArgs(IF "program" \in DOMAIN openocd_commands
               THEN openocd_commands["program"] ELSE DefaultProgram,
               address, 0)

ReadCommand(address, length) ==
    FormatArgs(IF "read" \in DOMAIN openocd_commands
               THEN openocd_commands["read"] ELSE DefaultRead,
               address, length)

EraseCommand(address) ==
    FormatArgs(IF "erase" \in DOMAIN openocd_commands
               THEN openocd_commands["erase"]
               ELSE FormatArgs(DefaultErase, address, 0),
               address, 0)

EraseLog(address) ==
    IF debug
    THEN <<[kind |-> "erasing",
            text |-> <<"Erasing page at address ">> \o Hex(address)]>>
    ELSE <<>>

flash_binary(address, binary) ==
    Invoke("program", address, <<binary>>, 0, ProgramCommand(address), <<>>)

read_range(address, length) ==
    Invoke("read", address, <<>>, length, ReadCommand(address, length), <<>>)

erase_page(address) ==
    Invoke("erase", address, <<>>, 0, EraseCommand(address), EraseLog(address))

-----------------------------------------------------------------------------
(* The external tool, any behaviour: it exits with any status, prints any  *)
(* text and, on a read that it ends with status 0, leaves any bytes in the *)
(* staging file.                                                           *)

OutAtoms == {"Can't find", "board/", "Error: No J-Link device found."}

\* Every stdout and stderr of at most MaxOut atoms together.
Texts ==
    {p \in SeqsUpTo(OutAtoms, MaxOut) \X SeqsUpTo(OutAtoms, MaxOut) :
        Len(p[1]) + Len(p[2]) <= MaxOut}

\* Nothing printed, or one of the texts the program looks for, on stdout or
\* on stderr.
Messages ==
    {<<m, <<>>>> : m \in {<<>>, CantFindBoard, NoJLink}}
    \cup {<<<<>>, m>> : m \in {CantFindBoard, NoJLink}}

\* What subprocess.run can return: any exit status with any of `outputs`,
\* and any of `dumps` left in the staging file of a read that exits with 0.
ToolRuns(outputs, dumps) ==
    {[rc |-> rc, out |-> p[1], err |-> p[2], wrote |-> <<>>] :
        rc \in {0, 1}, p \in outputs}
    \cup {[rc |-> 0, out |-> p[1], err |-> p[2], wrote |-> w] :
            p \in outputs, w \in IF run.op = "read" THEN dumps ELSE {}}

\* subprocess.run returns, the tool having printed at most one message.
subprocess_run ==
    /\ tool = "any"
    /\ \E resp \in ToolRuns(Messages, Buffers) : Return(resp)
    /\ UNCHANGED flash

\* subprocess.run returns, the tool having printed any text.
subprocess_run_text ==
    /\ tool = "any"
    /\ \E resp \in ToolRuns(Texts, SeqsUpTo({1}, 1)) : Return(resp)
    /\ UNCHANGED flash

-----------------------------------------------------------------------------
(* The simulated external tool of the round-trip property: it keeps a      *)
(* memory, stores the bytes of the file a `program` command names at the   *)
(* address given, and dumps memory into the file a `dump_image` command    *)
(* names.  A command that names no existing file fails.                    *)

MemTop == MaxAddr + MaxLen

ErasedFlash == [a \in 0..MemTop |-> EraseByte]

\* shlex.split inside the double quotes of the -c argument: a backslash
\* escapes a backslash or a double quote and is kept before anything else.
RECURSIVE ShlexUnescape(_)
ShlexUnescape(w) ==
    IF w = <<>> THEN <<>>
    ELSE IF Head(w) = BS /\ Len(w) >= 2 /\ w[2] \in {BS, "\""}
         THEN <<w[2]>> \o ShlexUnescape(SubSeq(w, 3, Len(w)))
         ELSE <<Head(w)>> \o ShlexUnescape(Tail(w))

\* The tool's script language: a backslash stands for the character after it.
RECURSIVE TclUnescape(_)
TclUnescape(w) ==
    IF w = <<>> THEN <<>>
    ELSE IF Head(w) = BS /\ Len(w) >= 2
         THEN <<w[2]>> \o TclUnescape(SubSeq(w, 3, Len(w)))
         ELSE <<Head(w)>> \o TclUnescape(Tail(w))

\* The script the tool runs: the third argument of the split command line.
Script(cmd) ==
    [i \in 1..(Len(cmd) - 2) |-> TclUnescape(ShlexUnescape(cmd[i + 2]))]

StripSemi(w) ==
    IF w # <<>> /\ w[Len(w)] = ";" THEN SubSeq(w, 1, Len(w) - 1) ELSE w

Verb(script, v) == {i \in DOMAIN script : script[i] = <<v>>}

ToolFails == [rc |-> 1, out |-> <<>>, err |-> <<>>, wrote |-> <<>>]

ToolDone(wrote) == [rc |-> 0, out |-> <<>>, err |-> <<>>, wrote |-> wrote]

SimTool(cmd, staged) ==
    LET script == Script(cmd)
        at(v) == CHOOSE i \in Verb(script, v) : TRUE
        opened(i) == {f \in staged : f.path = script[i]}
    IN  IF Verb(script, "program") # {}
        THEN LET i == at("program")
                 a == ParseNumber(StripSemi(script[i + 3]))
             IN  IF opened(i + 1) = {}
                 THEN [resp |-> ToolFails, flash |-> flash]
                 ELSE LET b == (CHOOSE f \in opened(i + 1) : TRUE).content
                      IN  [resp |-> ToolDone(<<>>),
                           flash |-> [x \in DOMAIN flash |->
                                        IF x >= a /\ x < a + Len(b)
                                        THEN b[x - a + 1] ELSE flash[x]]]
        ELSE IF Verb(script, "dump_image") # {}
        THEN LET i == at("dump_image")
                 a == ParseNumber(script[i + 2])
                 n == ParseNumber(StripSemi(script[i + 3]))
             IN  IF opened(i + 1) = {}
                 THEN [resp |-> ToolFails, flash |-> flash]
                 ELSE [resp |-> ToolDone([k \in 1..n |-> flash[a + k - 1]]),
                       flash |-> flash]
        ELSE IF Verb(script, "fillb") # {}
        THEN LET i == at("fillb")
                 a == ParseNumber(script[i + 1])
                 v == ParseNumber(script[i + 2])
                 n == ParseNumber(StripSemi(script[i + 3]))
             IN  [resp |-> ToolDone(<<>>),
                  flash |-> [x \in DOMAIN flash |->
                               IF x >= a /\ x < a + n THEN v ELSE flash[x]]]
        ELSE [resp |-> ToolFails, flash |-> flash]

\* subprocess.run returns, the tool being the simulated one.
subprocess_run_echo ==
    LET sim == SimTool(run.cmd, run.staged)
    IN  /\ tool = "simulated"
        /\ Return(sim.resp)
        /\ flash' = sim.flash

-----------------------------------------------------------------------------
(* The board resolver: determine_current_board.                            *)

NoCommands == <<>>

Overrides ==
    ("program" :> << <<"flash">>, <<"write_image">>, <<"{{binary}}">>,
                     <<"{address:#x}", ";">> >>)
    @@ ("read" :> << <<"flash">>, <<"read_bank">>, <<"{{binary}}">>,
                     <<"{address:#x}">>, <<"{length}", ";">> >>)
    @@ ("erase" :> << <<"flash">>, <<"erase_address">>, <<"{address:#x}">>,
                      <<"512", ";">> >>)

\* The known-boards catalog: board identity -> its static configuration.
KNOWN_BOARDS ==
    ("hail" :> [arch |-> "cortex-m4", openocd |-> "hail.cfg",
                page_size |-> 512])
    @@ ("arty" :> [arch |-> "rv32imac", openocd |-> "arty.cfg",
                   page_size |-> 512,
                   openocd_options |-> {"nocmdprefix"},
                   openocd_prefix |-> "source [find interface/ftdi/digilent.cfg];",
                   openocd_commands |-> Overrides])

\* Python's truth of a string or None.
IsSet(x) == x # None /\ x # ""

Fields ==
    [board |-> board, arch |-> arch, openocd_board |-> openocd_board,
     openocd_options |-> openocd_options, openocd_prefix |-> openocd_prefix,
     openocd_commands |-> openocd_commands, page_size |-> page_size]

\* Line 173: everything is already set.
AlreadySet(f) ==
    IsSet(f.board) /\ IsSet(f.arch) /\ IsSet(f.openocd_board) /\ f.page_size > 0

\* Line 178: the board is one of the catalog.
IsKnown(f) == IsSet(f.board) /\ f.board \in DOMAIN KNOWN_BOARDS

\* Lines 180-189: the fields taken from the catalog entry.
FromCatalog_KeepPageSize(f) ==
    LET b == KNOWN_BOARDS[f.board]
    IN  [f EXCEPT !.arch = b.arch, !.openocd_board = b.openocd]

FromCatalog(f) ==
    LET b == KNOWN_BOARDS[f.board]
    IN  [board |-> f.board,
         arch |-> b.arch,
         openocd_board |-> b.openocd,
         openocd_options |-> IF "openocd_options" \in DOMAIN b
                             THEN b.openocd_options ELSE f.openocd_options,
         openocd_prefix |-> IF "openocd_prefix" \in DOMAIN b
                            THEN b.openocd_prefix ELSE f.openocd_prefix,
         openocd_commands |-> IF "openocd_commands" \in DOMAIN b
                              THEN b.openocd_commands ELSE f.openocd_commands,
         page_size |-> b.page_size]

\* An attribute record is <<>> (absent) or <<r>>; r.value is the value of a
\* board, arch or openocd record and r.num the value of a pagesize record.
Attribute(key, value, num) == <<[key |-> key, value |-> value, num |-> num]>>

\* Lines 195-202: one record of the scan.
ScanRecord_ArchLast(f, attribute) ==
    IF attribute = <<>> THEN f
    ELSE LET a == attribute[1]
             f1 == IF a.key = "board" /\ f.board = None
                   THEN [f EXCEPT !.board = a.value] ELSE f
             f2 == IF a.key = "arch"
                   THEN [f1 EXCEPT !.arch = a.value] ELSE f1
             f3 == IF a.key = "openocd"
                   THEN [f2 EXCEPT !.openocd_board = a.value] ELSE f2
         IN  IF a.key = "pagesize" /\ f3.page_size = 0
             THEN [f3 EXCEPT !.page_size = a.num] ELSE f3

ScanRecord_OpenocdFirst(f, attribute) ==
    IF attribute = <<>> THEN f
    ELSE LET a == attribute[1]
             f1 == IF a.key = "board" /\ f.board = None
                   THEN [f EXCEPT !.board = a.value] ELSE f
             f2 == IF a.key = "arch" /\ f1.arch = None
                   THEN [f1 EXCEPT !.arch = a.value] ELSE f1
             f3 == IF a.key = "openocd" /\ f2.openocd_board = None
                   THEN [f2 EXCEPT !.openocd_board = a.value] ELSE f2
         IN  IF a.key = "pagesize" /\ f3.page_size = 0
             THEN [f3 EXCEPT !.page_size = a.num] ELSE f3

ScanRecord(f, attribute) ==
    IF attribute = <<>> THEN f
    ELSE LET a == attribute[1]
             f1 == IF a.key = "board" /\ f.board = None
                   THEN [f EXCEPT !.board = a.value] ELSE f
             f2 == IF a.key = "arch" /\ f1.arch = None
                   THEN [f1 EXCEPT !.arch = a.value] ELSE f1
             f3 == IF a.key = "openocd"
                   THEN [f2 EXCEPT !.openocd_board = a.value] ELSE f2
         IN  IF a.key = "pagesize" /\ f3.page_size = 0
             THEN [f3 EXCEPT !.page_size = a.num] ELSE f3

\* Lines 194-202: the scan, in the order the records are yielded.
RECURSIVE Scan(_, _)
Scan(f, attributes) ==
    IF attributes = <<>> THEN f
    ELSE Scan(ScanRecord(f, Head(attributes)), Tail(attributes))

\* Line 205: what was needed was not learned.
Undetermined(f) ==
    f.board = None \/ f.arch = None \/ f.openocd_board = "cortex-m0"
        \/ f.page_size = 0

NoCall == [path |-> "none", outcome |-> "ok", queried |-> FALSE,
           pre |-> <<>>, post |-> <<>>]

\* One call: the fields it leaves and what is recorded of it.
Resolved(path, outcome, queried, f) ==
    /\ board' = f.board
    /\ arch' = f.arch
    /\ openocd_board' = f.openocd_board
    /\ openocd_options' = f.openocd_options
    /\ openocd_prefix' = f.openocd_prefix
    /\ openocd_commands' = f.openocd_commands
    /\ page_size' = f.page_size
    /\ res' = [path |-> path, outcome |-> outcome, queried |-> queried,
               pre |-> Fields, post |-> f]
    /\ res_prev' = res
    /\ UNCHANGED <<platform, debug, tool, flashvars, attrs>>

determine_current_board ==
    \/ /\ AlreadySet(Fields)
       /\ Resolved("set", "ok", FALSE, Fields)
    \/ /\ ~AlreadySet(Fields)
       /\ IsKnown(Fields)
       /\ Resolved("known", "ok", FALSE, FromCatalog(Fields))
    \/ /\ ~AlreadySet(Fields)
       /\ ~IsKnown(Fields)
       /\ LET f == Scan(Fields, attrs)
          IN  Resolved("scan",
                       IF Undetermined(f) THEN "BoardUndetermined" ELSE "ok",
                       TRUE, f)

-----------------------------------------------------------------------------
(* Initial states of the flash operations: a resolved board profile.       *)

Profiles ==
    {[openocd_board |-> "hail.cfg", openocd_options |-> {},
      openocd_prefix |-> None, openocd_commands |-> NoCommands],
     [openocd_board |-> None,
      openocd_options |-> {"workareazero", "noreset", "resume"},
      openocd_prefix |-> None, openocd_commands |-> Overrides],
     [openocd_board |-> "hail.cfg", openocd_options |-> {"nocmdprefix"},
      openocd_prefix |-> "custom prefix;", openocd_commands |-> NoCommands]}

InitFlash(ps, t) ==
    /\ platform \in {"Windows", "Linux"}
    /\ debug \in BOOLEAN
    /\ tool = t
    /\ board = "hail"
    /\ arch = "cortex-m4"
    /\ page_size = 512
    /\ \E p \in ps :
        /\ openocd_board = p.openocd_board
        /\ openocd_options = p.openocd_options
        /\ openocd_prefix = p.openocd_prefix
        /\ openocd_commands = p.openocd_commands
    /\ collect_temp_files = <<>>
    /\ files = {}
    /\ nfiles = 0
    /\ flash = ErasedFlash
    /\ run = NoRun
    /\ last = NoOp
    /\ prev = NoOp
    /\ nops = 0
    /\ attrs = <<>>
    /\ res = NoCall
    /\ res_prev = NoCall

Init == InitFlash(Profiles, "any")

\* The flash operations on buffers and addresses of every kind.
Next ==
    \/ \E a \in Addrs, b \in Buffers : flash_binary(a, b)
    \/ \E a \in Addrs, n \in 0..MaxLen : read_range(a, n)
    \/ \E a \in Addrs : erase_page(a)
    \/ subprocess_run

Spec == Init /\ [][Next]_vars

\* The flash operations against a tool that prints text of every kind.
NextText ==
    \/ \E b \in SeqsUpTo({1}, 1) : flash_binary(0, b)
    \/ read_range(0, 1)
    \/ erase_page(0)
    \/ subprocess_run_text

SpecText == Init /\ [][NextText]_vars

\* The flash operations against the simulated tool.
InitEcho ==
    InitFlash({p \in Profiles : p.openocd_commands = NoCommands}, "simulated")

NextEcho ==
    \/ \E a \in Addrs, b \in Buffers : flash_binary(a, b)
    \/ \E a \in Addrs, n \in 0..MaxLen : read_range(a, n)
    \/ \E a \in Addrs : erase_page(a)
    \/ subprocess_run_echo

SpecEcho == InitEcho /\ [][NextEcho]_vars

-----------------------------------------------------------------------------
(* Initial states of the board resolver: any caller configuration and any  *)
(* attribute records.                                                      *)

AttributeRecords ==
    {<<>>}
    \cup {Attribute("board", v, 0) : v \in {"hail", "imix"}}
    \cup {Attribute("arch", v, 0) : v \in {"cortex-m4", "cortex-m3"}}
    \cup {Attribute("openocd", v, 0) : v \in {"imix.cfg", "cortex-m0"}}
    \cup {Attribute("pagesize", "", n) : n \in {0, 512, 1024}}

InitBoard ==
    /\ platform = "Linux"
    /\ debug = FALSE
    /\ tool = "any"
    /\ board \in {None, "hail", "arty", "imix"}
    /\ arch \in {None, "cortex-m3"}
    /\ openocd_board \in {None, "cortex-m0", "custom.cfg"}
    /\ openocd_options \in {{}, {"noreset"}}
    /\ openocd_prefix \in {None, "custom prefix;"}
    /\ openocd_commands \in {NoCommands, "erase" :> Overrides["erase"]}
    /\ page_size \in {0, 2048}
    /\ collect_temp_files = <<>>
    /\ files = {}
    /\ nfiles = 0
    /\ flash = ErasedFlash
    /\ run = NoRun
    /\ last = NoOp
    /\ prev = NoOp
    /\ nops = 0
    /\ attrs \in SeqsUpTo(AttributeRecords, MaxAttrs)
    /\ res = NoCall
    /\ res_prev = NoCall

NextBoard == determine_current_board

SpecBoard == InitBoard /\ [][NextBoard]_vars

-----------------------------------------------------------------------------
(* The properties.                                                         *)

\* `text` was printed by the operation that ended last as the tool's output.
Echoed(text) ==
    \E i \in DOMAIN last.log : last.log[i] = [kind |-> "output", text |-> text]

\* C1: every run of the external tool is classified by its exit status and
\* its captured output: a non-zero status fails, with the board-configuration
\* error when stdout followed by stderr contains the can't-find-board text
\* and with the generic error otherwise; a zero status whose stdout contains
\* the no-debug-hardware text fails with the hardware error; only a zero
\* status without that text in stdout succeeds.
C1_Classification ==
    last.op # "none" =>
        /\ (last.rc # 0 /\ Contains(last.out \o last.err, CantFindBoard))
               => last.outcome = "BoardConfigNotFound"
        /\ (last.rc # 0 /\ ~Contains(last.out \o last.err, CantFindBoard))
               => last.outcome = "ExternalToolFailure"
        /\ (last.rc = 0 /\ Contains(last.out, NoJLink))
               => last.outcome = "HardwareNotConnected"
        /\ (last.rc = 0 /\ ~Contains(last.out, NoJLink))
               => last.outcome = "ok"

\* A run that exits with status 0, prints the no-debug-hardware text on
\* stdout and fails with the hardware error.
C1_Witness ==
    /\ last.op # "none"
    /\ last.rc = 0
    /\ Contains(last.out, NoJLink)
    /\ last.outcome = "HardwareNotConnected"

\* C2: a successful read_range(A, L), the tool having left the bytes T in
\* the staging file, returns exactly the first min(L, len(T)) bytes of T.
C2_ReadRange ==
    (last.op = "read" /\ last.outcome = "ok") =>
        last.result
            = <<SubSeq(last.wrote, 1, Min(last.length, Len(last.wrote)))>>

\* A successful read of a positive length for which the tool wrote more
\* bytes than were asked for.
C2_Witness ==
    /\ last.op = "read"
    /\ last.outcome = "ok"
    /\ last.length > 0
    /\ Len(last.wrote) > last.length
    /\ Len(last.result[1]) = last.length

\* C3: against the simulated tool, program(A, B) followed by
\* read_range(A, len(B)) succeeds and returns exactly B, for every buffer B,
\* the empty one included.
C3_RoundTrip ==
    (/\ last.op = "read"
     /\ prev.op = "program"
     /\ prev.address = last.address
     /\ last.length = Len(prev.binary[1]))
        => /\ prev.outcome = "ok"
           /\ last.outcome = "ok"
           /\ last.result = prev.binary

\* `path` is in the retention list, as it is or backslash-escaped.
Recorded(path) ==
    \E i \in DOMAIN collect_temp_files :
        collect_temp_files[i] \in {path, EscapeName(path)}

\* C4 as stated: once a flash operation has ended, every staging file that
\* still exists is recorded in the retention list.
C4_DeletedOrRecorded ==
    run.op = "none" => \A path \in files : Recorded(path)

\* C4 as amended: once a flash operation has ended, the staging file it
\* created is deleted when the platform is not Windows and debug mode is
\* off; on Windows it exists and its escaped name is in the retention list;
\* on another platform in debug mode it exists and is not in the retention
\* list.  No other file exists.
C4_Retention ==
    run.op = "none" =>
        /\ \A f \in last.staged :
            IF platform = "Windows"
            THEN f.path \in files /\ Recorded(f.path)
                 /\ collect_temp_files[Len(collect_temp_files)]
                        = EscapeName(f.path)
            ELSE IF debug
                 THEN f.path \in files /\ ~Recorded(f.path)
                 ELSE f.path \notin files
        /\ \A path \in files :
            IF platform = "Windows" THEN Recorded(path)
            ELSE debug /\ ~Recorded(path)

\* An operation that failed on a platform other than Windows in debug mode:
\* its staging file exists and is not recorded.
C4_Witness ==
    /\ run.op = "none"
    /\ platform # "Windows"
    /\ debug
    /\ last.outcome # "ok"
    /\ \E f \in last.staged : f.path \in files /\ ~Recorded(f.path)

\* C8: when a run fails with any error, the captured output of the tool has
\* been printed, in debug mode or not; in debug mode it is printed on
\* success as well.
C8_OutputEchoed ==
    (last.op # "none" /\ (last.outcome # "ok" \/ debug))
        => Echoed(last.out \o last.err)

\* C10: when the tool is started for a program operation, a staging file
\* holding exactly the bytes of the buffer exists and the command holds its
\* name in place of the placeholder; erase_page stages no file.
C10_StagedBeforeRun ==
    /\ run.op = "program" =>
        /\ \E f \in run.staged :
            /\ f.content = run.binary[1]
            /\ f.path \in files
            /\ \E i \in DOMAIN run.cmd : run.cmd[i] = f.name
        /\ ~HasPlaceholder(run.cmd)
    /\ run.op = "erase" => run.staged = {}

\* The places of the records of one key among the attribute records.
Positions(key) ==
    {i \in DOMAIN attrs : attrs[i] # <<>> /\ attrs[i][1].key = key}

First(S) == CHOOSE i \in S : \A j \in S : i <= j

Latest(S) == CHOOSE i \in S : \A j \in S : j <= i

\* C5 as stated: after a successful determine_current_board, each of
\* architecture, probe-tool board name, options, prefix, command overrides
\* and page size that the caller had set still holds the caller's value.
C5_ExplicitKept ==
    (res.path # "none" /\ res.outcome = "ok") =>
        /\ res.pre.arch # None => res.post.arch = res.pre.arch
        /\ res.pre.openocd_board # None
               => res.post.openocd_board = res.pre.openocd_board
        /\ res.pre.openocd_options # {}
               => res.post.openocd_options = res.pre.openocd_options
        /\ res.pre.openocd_prefix # None
               => res.post.openocd_prefix = res.pre.openocd_prefix
        /\ res.pre.openocd_commands # NoCommands
               => res.post.openocd_commands = res.pre.openocd_commands
        /\ res.pre.page_size # 0 => res.post.page_size = res.pre.page_size

\* C5 as amended: after a successful determine_current_board the caller's
\* values are kept on the already-resolved path (every field); on the
\* attribute scan for every field but the probe-tool board name, which is
\* kept only when there is no `openocd` record; on the catalog path only
\* for the board and for those of options, prefix and command overrides
\* that the catalog entry does not define, the architecture, the probe-tool
\* board name and the page size being the catalog's.
C5_ExplicitKeptWhere ==
    (res.path # "none" /\ res.outcome = "ok") =>
        /\ res.path = "set" => res.post = res.pre
        /\ res.path = "scan" =>
            /\ res.pre.board # None => res.post.board = res.pre.board
            /\ res.pre.arch # None => res.post.arch = res.pre.arch
            /\ res.pre.page_size # 0 => res.post.page_size = res.pre.page_size
            /\ res.post.openocd_options = res.pre.openocd_options
            /\ res.post.openocd_prefix = res.pre.openocd_prefix
            /\ res.post.openocd_commands = res.pre.openocd_commands
            /\ Positions("openocd") = {}
                   => res.post.openocd_board = res.pre.openocd_board
        /\ res.path = "known" =>
            LET b == KNOWN_BOARDS[res.pre.board]
            IN  /\ res.post.board = res.pre.board
                /\ res.post.arch = b.arch
                /\ res.post.openocd_board = b.openocd
                /\ res.post.page_size = b.page_size
                /\ "openocd_options" \notin DOMAIN b
                       => res.post.openocd_options = res.pre.openocd_options
                /\ "openocd_prefix" \notin DOMAIN b
                       => res.post.openocd_prefix = res.pre.openocd_prefix
                /\ "openocd_commands" \notin DOMAIN b
                       => res.post.openocd_commands = res.pre.openocd_commands

\* A successful attribute scan with the architecture, the page size and the
\* options set by the caller, and an `arch` and a `pagesize` record of other
\* values: the caller's values are kept.
C5_Witness ==
    /\ res.path = "scan"
    /\ res.outcome = "ok"
    /\ res.pre.arch # None
    /\ res.pre.page_size # 0
    /\ res.pre.openocd_options # {}
    /\ \E i \in Positions("arch") : attrs[i][1].value # res.pre.arch
    /\ \E i \in Positions("pagesize") : attrs[i][1].num # res.pre.page_size
    /\ res.post.arch = res.pre.arch
    /\ res.post.page_size = res.pre.page_size

\* C6 as stated: whenever the board is preset and in the catalog,
\* determine_current_board succeeds without a device attribute query and
\* ends with the catalog entry's architecture, probe-tool board name and
\* page size; and it issues no query when the four fields are already set.
C6_CatalogShortCircuit ==
    res.path # "none" =>
        /\ IsKnown(res.pre) =>
            /\ ~res.queried
            /\ res.outcome = "ok"
            /\ res.post.arch = KNOWN_BOARDS[res.pre.board].arch
            /\ res.post.openocd_board = KNOWN_BOARDS[res.pre.board].openocd
            /\ res.post.page_size = KNOWN_BOARDS[res.pre.board].page_size
        /\ AlreadySet(res.pre) => ~res.queried /\ res.outcome = "ok"

\* C6 as amended: whenever the board is preset and in the catalog and the
\* four fields are not all set already, determine_current_board succeeds
\* without a device attribute query and ends with the catalog entry's
\* architecture, probe-tool board name and page size; when the four fields
\* are all set already it succeeds without a query and changes no field.
C6_CatalogUnlessSet ==
    res.path # "none" =>
        /\ (IsKnown(res.pre) /\ ~AlreadySet(res.pre)) =>
            /\ ~res.queried
            /\ res.outcome = "ok"
            /\ res.post.arch = KNOWN_BOARDS[res.pre.board].arch
            /\ res.post.openocd_board = KNOWN_BOARDS[res.pre.board].openocd
            /\ res.post.page_size = KNOWN_BOARDS[res.pre.board].page_size
        /\ AlreadySet(res.pre) =>
            /\ ~res.queried
            /\ res.outcome = "ok"
            /\ res.post = res.pre

\* The board "hail" preset and nothing else: the call ends with cortex-m4,
\* hail.cfg and 512, and no query.
C6_Witness ==
    /\ res.path = "known"
    /\ res.pre.board = "hail"
    /\ res.pre.arch = None
    /\ res.pre.openocd_board = None
    /\ res.pre.page_size = 0
    /\ res.post.arch = "cortex-m4"
    /\ res.post.openocd_board = "hail.cfg"
    /\ res.post.page_size = 512
    /\ ~res.queried

\* C7: a second determine_current_board right after a first leaves every
\* field as the first left it and ends as the first did.
C7_Idempotent ==
    res_prev.path # "none" =>
        /\ res.post = res_prev.post
        /\ res.outcome = res_prev.outcome

\* C9 as stated: after the attribute scan, the board is the first `board`
\* record's value only if it was unset, the architecture the first `arch`
\* record's value only if it was unset, the probe-tool board name the last
\* `openocd` record's value, and the page size the first `pagesize`
\* record's value only if it was zero; absent records are skipped.
C9_ScanFirstPagesize ==
    res.path = "scan" =>
        /\ res.post.board =
            IF res.pre.board = None /\ Positions("board") # {}
            THEN attrs[First(Positions("board"))][1].value
            ELSE res.pre.board
        /\ res.post.arch =
            IF res.pre.arch = None /\ Positions("arch") # {}
            THEN attrs[First(Positions("arch"))][1].value
            ELSE res.pre.arch
        /\ res.post.openocd_board =
            IF Positions("openocd") # {}
            THEN attrs[Latest(Positions("openocd"))][1].value
            ELSE res.pre.openocd_board
        /\ res.post.page_size =
            IF res.pre.page_size = 0 /\ Positions("pagesize") # {}
            THEN attrs[First(Positions("pagesize"))][1].num
            ELSE res.pre.page_size

\* The places of the `pagesize` records whose value is not zero.
NonZeroPagesizes == {i \in Positions("pagesize") : attrs[i][1].num # 0}

\* C9 as amended: as stated, but the page size is the value of the first
\* `pagesize` record whose value is not zero, only if it was zero before.
C9_ScanFirstNonZeroPagesize ==
    res.path = "scan" =>
        /\ res.post.board =
            IF res.pre.board = None /\ Positions("board") # {}
            THEN attrs[First(Positions("board"))][1].value
            ELSE res.pre.board
        /\ res.post.arch =
            IF res.pre.arch = None /\ Positions("arch") # {}
            THEN attrs[First(Positions("arch"))][1].value
            ELSE res.pre.arch
        /\ res.post.openocd_board =
            IF Positions("openocd") # {}
            THEN attrs[Latest(Positions("openocd"))][1].value
            ELSE res.pre.openocd_board
        /\ res.post.page_size =
            IF res.pre.page_size = 0 /\ NonZeroPagesizes # {}
            THEN attrs[First(NonZeroPagesizes)][1].num
            ELSE res.pre.page_size

\* A scan of two `pagesize` records, the first of value zero and the second
\* not, with the page size unset before: the second record sets it.
C9_Witness ==
    /\ res.path = "scan"
    /\ res.pre.page_size = 0
    /\ Cardinality(Positions("pagesize")) = 2
    /\ attrs[First(Positions("pagesize"))][1].num = 0
    /\ attrs[Latest(Positions("pagesize"))][1].num # 0
    /\ res.post.page_size = attrs[Latest(Positions("pagesize"))][1].num

====
